---- MODULE Spec2Model ----
(***************************************************************************)
(* RoboMermaid: view materialisation.                                      *)
(*   scripts/generate_diagrams.py  model pipeline: adjacency, selection,   *)
(*                                  expansion, rendering                    *)
(*   scripts/carve_diagrams.py     carving pipeline: front-matter,         *)
(*                                  annotation parser, view assembler       *)
(* The specifications of this module:                                      *)
(*   SpecExpand      expand_directional applied to drawn inputs            *)
(*   SpecNeighbours  expand_neighbours applied to drawn inputs             *)
(*   SpecSafeId      safe_id applied to drawn strings                      *)
(*   SpecCompound    the expansion options of select_for_view, four ids    *)
(*   SpecSelect      main() of generate_diagrams.py, one model, one view   *)
(*   SpecCarve       main() of carve_diagrams.py, one master document      *)
(***************************************************************************)
EXTENDS Integers, Sequences, FiniteSets, TLC

VARIABLES
    \* ---- SpecExpand: inputs and result of one expand_directional call
    xpc, xedges, xseed, xoutbound, xinbound, xresult,
    \* ---- SpecNeighbours: inputs and results of two expand_neighbours calls
    npc, nedges, nseed, nk1, nk2, nres1, nres2,
    \* ---- SpecSafeId: a string, safe_id of it, safe_id of that
    ipc, istr, isid, isid2,
    \* ---- SpecCompound: a model, a view, the node set after lines 137-138 and
    \* after lines 140-145 of select_for_view
    qpc, qedges, qview, qsym, qfinal,
    \* ---- SpecSelect: generate_diagrams.main
    pc, nodes, edges, view, out_adj, in_adj, inc_nodes, inc_edges, mmd,
    \* ---- SpecCarve: carve_diagrams.main
    cpc, raw_lines, explicit_views, lines, idx, global_lines, view_lines,
    pending_views, in_block, block_view, views, vi, carved,
    \* history of the parse loop (positions of the lines placed in each bucket,
    \* the parser state before each line): read by the properties only
    global_pos, view_pos, pending_src, hist

dvars == <<xpc, xedges, xseed, xoutbound, xinbound, xresult>>
nvars == <<npc, nedges, nseed, nk1, nk2, nres1, nres2>>
ivars == <<ipc, istr, isid, isid2>>
qvars == <<qpc, qedges, qview, qsym, qfinal>>
\* the variables of the function-level specifications
xvars == <<dvars, nvars, ivars, qvars>>
svars == <<pc, nodes, edges, view, out_adj, in_adj, inc_nodes, inc_edges, mmd>>
cvars == <<cpc, raw_lines, explicit_views, lines, idx, global_lines, view_lines,
           pending_views, in_block, block_view, views, vi, carved,
           global_pos, view_pos, pending_src, hist>>
vars == <<xvars, svars, cvars>>

\* Python's None, for a string
None == "None"

\* Optional[Set[str]]: <<>> is None, <<S>> is the set S
NoSet == <<>>
SomeSet(S) == <<S>>

(***************************************************************************)
(* Bounds                                                                  *)
(***************************************************************************)
\* largest hop count drawn for an expand key
MaxHops == 2
\* largest hop count drawn for an expand key of a view
MaxViewHops == 1
\* longest edge list of a model
MaxEdges == 2
\* longest master document, in lines
MaxLen == 4
\* longest string given to safe_id, in characters
MaxIdLen == 3
\* longest edge list of a model over four ids
MaxCompoundEdges == 4
\* largest hop count drawn for a directional expand key over four ids
MaxWalkHops == 3

(***************************************************************************)
(* Node ids.  "z" is the id that models use for a stale reference: it may  *)
(* be absent from the node map while edges or selectors still name it.     *)
(***************************************************************************)
Ids == {"A", "a", "z"}

\* the ids of the larger models: one more id
Ids4 == Ids \cup {"zz"}

\* Python's string order on the ids drawn (sorted() in render_mermaid)
IdOrd(n) == CASE n = "A" -> 1 [] n = "a" -> 2 [] n = "z" -> 3 [] n = "zz" -> 4

\* the characters of an id
IdChars(n) == CASE n = "zz" -> <<"z", "z">> [] OTHER -> <<n>>

\* the elements of a finite set of ids as a sequence, in some iteration order
RECURSIVE SetToSeq(_)
SetToSeq(S) ==
    IF S = {} THEN <<>>
    ELSE LET n == CHOOSE m \in S : \A o \in S : IdOrd(m) <= IdOrd(o)
         IN  <<n>> \o SetToSeq(S \ {n})

\* dict.get(n, set()) on an adjacency map
AdjGet(adj, n) == IF n \in DOMAIN adj THEN adj[n] ELSE {}

(***************************************************************************)
(* generate_diagrams.py                                                    *)
(***************************************************************************)
\* A string is the sequence of its characters.  The characters drawn: ASCII
\* letters of both cases, a digit, a hyphen, the underscore, and two code
\* points outside ASCII: U+0130 (capital I with dot above), a letter whose
\* str.lower() is the two characters "i" U+0307, and U+0307 itself (combining
\* dot above), which is not a letter.
LowerLetters == {"a", "d", "e", "i", "n", "o", "z"}
UpperLetters == {"A", "U+0130"}
Digits == {"7"}
IdAlphabet == {"a", "A", "7", "-", "_", "U+0130", "U+0307"}

\* str.isalnum() on one character
isalnum(ch) == ch \in LowerLetters \cup UpperLetters \cup Digits

\* str.lower() on one character: a string, of two characters for U+0130
lower(ch) ==
    CASE ch = "A" -> <<"a">>
      [] ch = "U+0130" -> <<"i", "U+0307">>
      [] OTHER -> <<ch>>

\* safe_id, lines 13-15: `out` gets one string per character of s
SafeIdOut(s) == [k \in DOMAIN s |-> IF isalnum(s[k]) THEN lower(s[k]) ELSE <<"_">>]

\* safe_id, lines 17-23: an entry "_" that follows an entry "_" is dropped
RECURSIVE SafeIdCollapse(_, _, _)
SafeIdCollapse(out, cleaned, prev) ==
    IF out = <<>> THEN cleaned
    ELSE IF Head(out) = <<"_">> /\ prev = <<"_">>
         THEN SafeIdCollapse(Tail(out), cleaned, prev)
         ELSE SafeIdCollapse(Tail(out), Append(cleaned, Head(out)), Head(out))

\* "".join(cleaned)
RECURSIVE JoinEmpty(_)
JoinEmpty(parts) ==
    IF parts = <<>> THEN <<>> ELSE Head(parts) \o JoinEmpty(Tail(parts))

\* str.strip("_")
RECURSIVE StripUnderscores(_)
StripUnderscores(t) ==
    IF t = <<>> THEN t
    ELSE IF Head(t) = "_" THEN StripUnderscores(Tail(t))
    ELSE IF t[Len(t)] = "_" THEN StripUnderscores(SubSeq(t, 1, Len(t) - 1))
    ELSE t

\* safe_id
safe_id(s) ==
    LET r == StripUnderscores(JoinEmpty(SafeIdCollapse(SafeIdOut(s), <<>>, <<>>)))
    IN  IF r = <<>> THEN <<"n", "o", "d", "e">> ELSE r

\* build_adjacency: forward and reverse index of the edge list; a key exists
\* only for an id that is the source (resp. target) of some edge.
build_adjacency(es) ==
    LET E == {es[k] : k \in DOMAIN es}
        srcs == {e.from : e \in E}
        tgts == {e.to : e \in E}
    IN  [out |-> [s \in srcs |-> {e.to : e \in {f \in E : f.from = s}}],
         in  |-> [t \in tgts |-> {e.from : e \in {f \in E : f.to = t}}]]

\* the (n, d) queue entries appended for a set of newly seen neighbours
QueueOf(S, d) == [k \in 1..Cardinality(S) |-> <<SetToSeq(S)[k], d>>]

\* the while-loop of expand_directional.walk: q is the deque, seen the set
\* shared by both walks of one call
RECURSIVE WalkLoop(_, _, _, _)
WalkLoop(q, seen, adj, depth) ==
    IF q = <<>> THEN seen
    ELSE LET n == Head(q)[1]
             d == Head(q)[2]
         IN  IF d = depth THEN WalkLoop(Tail(q), seen, adj, depth)
             ELSE LET new == AdjGet(adj, n) \ seen
                  IN  WalkLoop(Tail(q) \o QueueOf(new, d + 1), seen \cup new, adj, depth)

\* expand_directional.walk(adj, depth): starts from the call's seed, marks in seen
walk(seed, seen, adj, depth) ==
    IF depth <= 0 THEN seen
    ELSE WalkLoop(QueueOf(seed, 0), seen, adj, depth)

\* expand_directional: the inbound walk runs on the seen set the outbound walk left
expand_directional(seed, oadj, iadj, outbound, inbound) ==
    LET seen0 == seed
        seen1 == walk(seed, seen0, oadj, outbound)
        seen2 == walk(seed, seen1, iadj, inbound)
    IN  seen2

\* the while-loop of expand_neighbours: one walk over forward and reverse
\* adjacency together
RECURSIVE NeighbourLoop(_, _, _, _, _)
NeighbourLoop(q, seen, oadj, iadj, k) ==
    IF q = <<>> THEN seen
    ELSE LET n == Head(q)[1]
             d == Head(q)[2]
         IN  IF d = k THEN NeighbourLoop(Tail(q), seen, oadj, iadj, k)
             ELSE LET new == (AdjGet(oadj, n) \cup AdjGet(iadj, n)) \ seen
                  IN  NeighbourLoop(Tail(q) \o QueueOf(new, d + 1), seen \cup new,
                                    oadj, iadj, k)

\* faulty variant: the reverse adjacency is not followed
expand_neighbours_forward_only(seed, oadj, iadj, k) ==
    IF k <= 0 THEN seed
    ELSE NeighbourLoop(QueueOf(seed, 0), seed, oadj, <<>>, k)

\* faulty variant: no early return for k <= 0, so a negative k never stops the walk
expand_neighbours_no_guard(seed, oadj, iadj, k) ==
    NeighbourLoop(QueueOf(seed, 0), seed, oadj, iadj, k)

\* expand_neighbours
expand_neighbours(seed, oadj, iadj, k) ==
    IF k <= 0 THEN seed
    ELSE NeighbourLoop(QueueOf(seed, 0), seed, oadj, iadj, k)

\* tags_of: the tag set of a node's or an edge's record
tags_of(obj) == obj.tags

\* the range of a list
Range(s) == {s[k] : k \in DOMAIN s}

\* select_for_view, steps 1-2: explicit node ids, then nodes by tag
SeedNodes(v, ns) ==
    v.include.nodes
        \cup (IF v.include.tags # {}
              THEN {nid \in DOMAIN ns : v.include.tags \cap tags_of(ns[nid]) # {}}
              ELSE {})

\* select_for_view.edge_matches
edge_matches(v, e) ==
    IF v.include.edge_tags = {} THEN FALSE
    ELSE v.include.edge_tags \cap tags_of(e) # {}

\* select_for_view, step 3: edges by tag, with their endpoints
MatchedEdges(v, es) == {<<e.from, e.to>> : e \in {f \in Range(es) : edge_matches(v, f)}}

MatchedEndpoints(v, es) ==
    UNION {{e.from, e.to} : e \in {f \in Range(es) : edge_matches(v, f)}}

\* select_for_view, "if not include_nodes and not include_edges"
Fallback(v, ns, es) == SeedNodes(v, ns) \cup MatchedEndpoints(v, es) = {} /\ MatchedEdges(v, es) = {}

\* faulty variant: the fallback forgotten for the node set
IncludeNodes0_NoFallback(v, ns, es) == SeedNodes(v, ns) \cup MatchedEndpoints(v, es)

\* include_nodes and include_edges before the expansion options
IncludeNodes0(v, ns, es) ==
    IF Fallback(v, ns, es) THEN DOMAIN ns
    ELSE SeedNodes(v, ns) \cup MatchedEndpoints(v, es)

IncludeEdges0(v, ns, es) ==
    IF Fallback(v, ns, es) THEN {<<e.from, e.to>> : e \in Range(es)}
    ELSE MatchedEdges(v, es)

\* expand.get(key) or 0
ExpandGetOr0(v, key) == IF key \in DOMAIN v.expand THEN v.expand[key] ELSE 0

\* the expansion options: neighbours first, then outbound/inbound on its result
AfterNeighbours(v, ns, es, oadj, iadj) ==
    IF "neighbours" \in DOMAIN v.expand
    THEN expand_neighbours(IncludeNodes0(v, ns, es), oadj, iadj, v.expand["neighbours"])
    ELSE IncludeNodes0(v, ns, es)

AfterExpansion(v, ns, es, oadj, iadj) ==
    IF "outbound" \in DOMAIN v.expand \/ "inbound" \in DOMAIN v.expand
    THEN expand_directional(AfterNeighbours(v, ns, es, oadj, iadj), oadj, iadj,
                            ExpandGetOr0(v, "outbound"), ExpandGetOr0(v, "inbound"))
    ELSE AfterNeighbours(v, ns, es, oadj, iadj)

\* "if not include_edges": edges between the included nodes
InducedEdges(es, S) == {<<e.from, e.to>> : e \in {f \in Range(es) : f.from \in S /\ f.to \in S}}

\* "Keep only valid nodes"
ValidNodes(S, ns) == {n \in S : n \in DOMAIN ns}

select_for_view(v, ns, es, oadj, iadj) ==
    LET expanded == AfterExpansion(v, ns, es, oadj, iadj)
        e0 == IncludeEdges0(v, ns, es)
    IN  [nodes |-> ValidNodes(expanded, ns),
         edges |-> IF e0 = {} THEN InducedEdges(es, expanded) ELSE e0]

\* sorted(included_nodes)
SortedIds(S) == SetToSeq(S)

\* sorted(included_edges, key=lambda x: (x[0], x[1]))
RECURSIVE SortedPairs(_)
SortedPairs(P) ==
    IF P = {} THEN <<>>
    ELSE LET p == CHOOSE q \in P : \A r \in P :
                      \/ IdOrd(q[1]) < IdOrd(r[1])
                      \/ IdOrd(q[1]) = IdOrd(r[1]) /\ IdOrd(q[2]) <= IdOrd(r[2])
         IN  <<p>> \o SortedPairs(P \ {p})

\* faulty variant: the edge loop without its membership re-check
EdgeLines_NoRecheck(ps, included) == ps

\* the edge loop of render_mermaid: a pair gets a line only if both ends are
\* in included_nodes
RECURSIVE EdgeLines(_, _)
EdgeLines(ps, included) ==
    IF ps = <<>> THEN <<>>
    ELSE (IF Head(ps)[1] \in included /\ Head(ps)[2] \in included
          THEN <<Head(ps)>> ELSE <<>>) \o EdgeLines(Tail(ps), included)

\* mermaid_node: the identifier the declaration of node nid is written with
mermaid_node(nid) == safe_id(IdChars(nid))

\* render_mermaid: the node declarations and the edge lines, in emission order:
\* node_ids and edge_pairs name the ids each line is emitted for, node_decls
\* and edge_lines the identifiers written in it
render_mermaid(ns, included_nodes, included_edges) ==
    LET ids == SortedIds(included_nodes)
        eps == EdgeLines(SortedPairs(included_edges), included_nodes)
    IN  [node_ids |-> ids,
         edge_pairs |-> eps,
         node_decls |-> [k \in DOMAIN ids |-> mermaid_node(ids[k])],
         edge_lines |-> [k \in DOMAIN eps |->
                           <<safe_id(IdChars(eps[k][1])), safe_id(IdChars(eps[k][2]))>>]]

(***************************************************************************)
(* SpecExpand: expand_directional applied to a drawn seed, edge relation    *)
(* and hop counts.                                                         *)
(***************************************************************************)
\* an edge record without tags, as build_adjacency reads it
PlainEdge(s, t) == [from |-> s, to |-> t, tags |-> {}]

\* the edge list of a relation over the ids, one entry per pair
RECURSIVE RelToList(_)
RelToList(R) ==
    IF R = {} THEN <<>>
    ELSE LET p == CHOOSE q \in R : \A r \in R :
                      \/ IdOrd(q[1]) < IdOrd(r[1])
                      \/ IdOrd(q[1]) = IdOrd(r[1]) /\ IdOrd(q[2]) <= IdOrd(r[2])
         IN  <<PlainEdge(p[1], p[2])>> \o RelToList(R \ {p})

HopValues == (0 - 1)..MaxHops

IdleDirectional ==
    /\ xpc = "idle" /\ xedges = <<>> /\ xseed = {}
    /\ xoutbound = 0 /\ xinbound = 0 /\ xresult = {}

IdleNeighbours ==
    /\ npc = "idle" /\ nedges = <<>> /\ nseed = {}
    /\ nk1 = 0 /\ nk2 = 0 /\ nres1 = {} /\ nres2 = {}

IdleSafeId == ipc = "idle" /\ istr = <<>> /\ isid = <<>> /\ isid2 = <<>>

IdleCompound ==
    /\ qpc = "idle" /\ qedges = <<>> /\ qview = None /\ qsym = {} /\ qfinal = {}

IdleExpand == IdleDirectional /\ IdleNeighbours /\ IdleSafeId /\ IdleCompound

IdleSelect ==
    /\ pc = "idle" /\ nodes = <<>> /\ edges = <<>> /\ view = None
    /\ out_adj = <<>> /\ in_adj = <<>> /\ inc_nodes = {} /\ inc_edges = {}
    /\ mmd = <<>>

IdleCarve ==
    /\ cpc = "idle" /\ raw_lines = <<>> /\ explicit_views = <<>> /\ lines = <<>>
    /\ idx = 0 /\ global_lines = <<>> /\ view_lines = <<>>
    /\ pending_views = NoSet /\ in_block = FALSE /\ block_view = None
    /\ views = <<>> /\ vi = 0 /\ carved = <<>>
    /\ global_pos = <<>> /\ view_pos = <<>> /\ pending_src = 0 /\ hist = <<>>

InitExpand ==
    /\ xpc = "call"
    /\ \E R \in SUBSET (Ids \X Ids) : xedges = RelToList(R)
    /\ xseed \in SUBSET Ids
    /\ xoutbound \in HopValues
    /\ xinbound \in HopValues
    /\ xresult = {}
    /\ IdleNeighbours /\ IdleSafeId /\ IdleCompound
    /\ IdleSelect /\ IdleCarve

CallExpandDirectional ==
    /\ xpc = "call"
    /\ LET adj == build_adjacency(xedges)
       IN  xresult' = expand_directional(xseed, adj.out, adj.in, xoutbound, xinbound)
    /\ xpc' = "done"
    /\ UNCHANGED <<xedges, xseed, xoutbound, xinbound, nvars, ivars, qvars, svars, cvars>>

NextExpand == CallExpandDirectional

SpecExpand == InitExpand /\ [][NextExpand]_vars

(***************************************************************************)
(* SpecNeighbours: expand_neighbours applied twice to a drawn seed and     *)
(* edge relation, once for each of two drawn hop counts.                   *)
(***************************************************************************)
InitNeighbours ==
    /\ npc = "call"
    /\ \E R \in SUBSET (Ids \X Ids) : nedges = RelToList(R)
    /\ nseed \in SUBSET Ids
    /\ nk1 \in HopValues
    /\ nk2 \in HopValues
    /\ nres1 = {} /\ nres2 = {}
    /\ IdleDirectional /\ IdleSafeId /\ IdleCompound
    /\ IdleSelect /\ IdleCarve

CallExpandNeighbours ==
    /\ npc = "call"
    /\ LET adj == build_adjacency(nedges)
       IN  /\ nres1' = expand_neighbours(nseed, adj.out, adj.in, nk1)
           /\ nres2' = expand_neighbours(nseed, adj.out, adj.in, nk2)
    /\ npc' = "done"
    /\ UNCHANGED <<nedges, nseed, nk1, nk2, dvars, ivars, qvars, svars, cvars>>

NextNeighbours == CallExpandNeighbours

SpecNeighbours == InitNeighbours /\ [][NextNeighbours]_vars

(***************************************************************************)
(* SpecSafeId: safe_id applied to a drawn string, then to its own result.   *)
(***************************************************************************)
Strings == UNION {[1..n -> IdAlphabet] : n \in 0..MaxIdLen}

InitSafeId ==
    /\ ipc = "call"
    /\ istr \in Strings
    /\ isid = <<>> /\ isid2 = <<>>
    /\ IdleDirectional /\ IdleNeighbours /\ IdleCompound
    /\ IdleSelect /\ IdleCarve

CallSafeId ==
    /\ ipc = "call"
    /\ isid' = safe_id(istr)
    /\ isid2' = safe_id(safe_id(istr))
    /\ ipc' = "done"
    /\ UNCHANGED <<istr, dvars, nvars, qvars, svars, cvars>>

NextSafeId == CallSafeId

SpecSafeId == InitSafeId /\ [][NextSafeId]_vars

(***************************************************************************)
(* SpecCompound: the expansion options of select_for_view (lines 136-145)  *)
(* on a model of four ids, for a view that names explicit nodes and has    *)
(* the symmetric key together with a directional key.                      *)
(***************************************************************************)
\* the node map of the larger models: every id, untagged
CompoundNodes == [n \in Ids4 |-> [tags |-> {}]]

\* the edge lists of the larger models: up to MaxCompoundEdges pairs of
\* distinct ids
CompoundEdgeLists ==
    {RelToList(R) : R \in {Q \in SUBSET {p \in Ids4 \X Ids4 : p[1] # p[2]} :
                              Cardinality(Q) <= MaxCompoundEdges}}

\* the views drawn: explicit nodes, "neighbours" and one or both of
\* "outbound", "inbound"
CompoundViews ==
    {[include |-> [nodes |-> N, tags |-> {}, edge_tags |-> {}],
      expand |-> [k \in {"neighbours"} \cup DOMAIN d |->
                    IF k = "neighbours" THEN h ELSE d[k]]] :
        N \in SUBSET Ids4, h \in 1..MaxViewHops,
        d \in UNION {[K -> 1..MaxWalkHops] : K \in (SUBSET {"outbound", "inbound"}) \ {{}}}}

InitCompound ==
    /\ qpc = "call"
    /\ qedges \in CompoundEdgeLists
    /\ qview = None
    /\ qsym = {} /\ qfinal = {}
    /\ IdleDirectional /\ IdleNeighbours /\ IdleSafeId
    /\ IdleSelect /\ IdleCarve

\* select_for_view up to line 145: include_nodes after "neighbours" and after
\* "outbound"/"inbound"
ExpandForView ==
    /\ qpc = "call"
    /\ \E v \in CompoundViews :
          LET adj == build_adjacency(qedges)
          IN  /\ qview' = v
              /\ qsym' = AfterNeighbours(v, CompoundNodes, qedges, adj.out, adj.in)
              /\ qfinal' = AfterExpansion(v, CompoundNodes, qedges, adj.out, adj.in)
    /\ qpc' = "done"
    /\ UNCHANGED <<qedges, dvars, nvars, ivars, svars, cvars>>

NextCompound == ExpandForView

SpecCompound == InitCompound /\ [][NextCompound]_vars

(***************************************************************************)
(* SpecSelect: main() of generate_diagrams.py on a drawn model and view:   *)
(* build_adjacency, then select_for_view and render_mermaid for the view.  *)
(***************************************************************************)
\* node records: the node "A" carries the tag "core", the others no tag
NodeMeta(n) == [tags |-> IF n = "A" THEN {"core"} ELSE {}]

\* the node maps drawn: any subset of the ids as keys
NodeMaps == {[n \in K |-> NodeMeta(n)] : K \in SUBSET Ids}

\* the edges drawn: every ordered pair of distinct ids untagged, and the
\* pairs out of "A" also with the tag "t"
EdgeUniverse ==
    {e \in [from : Ids, to : Ids, tags : {{}}] : e.from # e.to}
        \cup {[from |-> "A", to |-> t, tags |-> {"t"}] : t \in Ids \ {"A"}}

EdgeOrd(e) == 2 * (3 * IdOrd(e.from) + IdOrd(e.to)) + (IF e.tags = {} THEN 0 ELSE 1)

RECURSIVE EdgeSetToList(_)
EdgeSetToList(E) ==
    IF E = {} THEN <<>>
    ELSE LET e == CHOOSE f \in E : \A g \in E : EdgeOrd(f) <= EdgeOrd(g)
         IN  <<e>> \o EdgeSetToList(E \ {e})

\* the edge lists drawn: up to MaxEdges distinct entries
EdgeLists == {EdgeSetToList(E) : E \in {F \in SUBSET EdgeUniverse : Cardinality(F) <= MaxEdges}}

ExpandKeys == {"neighbours", "outbound", "inbound"}

\* the view specifications drawn (title and layout do not enter selection)
Views ==
    {[include |-> [nodes |-> N, tags |-> T, edge_tags |-> ET], expand |-> x] :
        N \in SUBSET Ids, T \in {{}, {"core"}}, ET \in {{}, {"t"}},
        x \in UNION {[K -> 1..MaxViewHops] : K \in SUBSET ExpandKeys}}

InitSelect ==
    /\ pc = "load"
    /\ nodes \in NodeMaps
    /\ edges \in EdgeLists
    /\ view = None
    /\ out_adj = <<>> /\ in_adj = <<>>
    /\ inc_nodes = {} /\ inc_edges = {}
    /\ mmd = <<>>
    /\ IdleExpand /\ IdleCarve

\* main: out_adj, in_adj = build_adjacency(edges)
BuildAdjacency ==
    /\ pc = "load"
    /\ out_adj' = build_adjacency(edges).out
    /\ in_adj' = build_adjacency(edges).in
    /\ pc' = "select"
    /\ UNCHANGED <<nodes, edges, view, inc_nodes, inc_edges, mmd, xvars, cvars>>

\* main, one turn of "for view_name, view in views.items()":
\* inc_nodes, inc_edges = select_for_view(view, nodes, edges, out_adj, in_adj)
SelectForView ==
    /\ pc = "select"
    /\ \E v \in Views :
          LET r == select_for_view(v, nodes, edges, out_adj, in_adj)
          IN  /\ view' = v
              /\ inc_nodes' = r.nodes
              /\ inc_edges' = r.edges
    /\ pc' = "render"
    /\ UNCHANGED <<nodes, edges, out_adj, in_adj, mmd, xvars, cvars>>

\* main: mmd = render_mermaid(title, layout, nodes, inc_nodes, inc_edges)
RenderMermaid ==
    /\ pc = "render"
    /\ mmd' = render_mermaid(nodes, inc_nodes, inc_edges)
    /\ pc' = "done"
    /\ UNCHANGED <<nodes, edges, view, out_adj, in_adj, inc_nodes, inc_edges, xvars, cvars>>

NextSelect == BuildAdjacency \/ SelectForView \/ RenderMermaid

SpecSelect == InitSelect /\ [][NextSelect]_vars

(***************************************************************************)
(* carve_diagrams.py                                                       *)
(* A line is one of the texts below; a text is read through the regular    *)
(* expressions of the module and, for rstrip, through its characters.      *)
(***************************************************************************)
ContentLines == {"n1", "n2 ", ""}
DelimLine == "---"
ViewXY == "%%@view: x,y"
ViewNone == "%%@view: ,"
BeginZ == "%%@begin: view=z"
EndLine == "%%@end"
LineAlphabet == ContentLines \cup {DelimLine, ViewXY, ViewNone, BeginZ, EndLine}

\* VIEW_LINE_RE.match(ln): group(1), or None
VIEW_LINE_RE(ln) ==
    CASE ln = ViewXY -> "x,y"
      [] ln = ViewNone -> ","
      [] OTHER -> None

\* BEGIN_RE.match(ln): group(1), or None
BEGIN_RE(ln) == IF ln = BeginZ THEN "z" ELSE None

\* END_RE.match(ln)
END_RE(ln) == ln = EndLine

\* FRONTMATTER_DELIM_RE.match(ln)
FRONTMATTER_DELIM_RE(ln) == ln = DelimLine

\* {v.strip() for v in group.split(",") if v.strip()}
SplitViews(group) ==
    CASE group = "x,y" -> {"x", "y"}
      [] group = "," -> {}

\* the characters of a line, a run of non-blank characters written as one
LineChars(ln) ==
    CASE ln = "" -> <<>>
      [] ln = "n2 " -> <<"n2", " ">>
      [] OTHER -> <<ln>>

Whitespace == {" ", "\n"}

\* faulty variant: an opening delimiter without a closing one is dropped
strip_frontmatter_drops_open(ls) ==
    IF ls = <<>> THEN ls
    ELSE IF ~FRONTMATTER_DELIM_RE(ls[1]) THEN ls
    ELSE LET closing == {i \in 2..Len(ls) : FRONTMATTER_DELIM_RE(ls[i])}
         IN  IF closing = {} THEN Tail(ls)
             ELSE LET i == CHOOSE j \in closing : \A m \in closing : j <= m
                  IN  SubSeq(ls, i + 1, Len(ls))

\* strip_frontmatter
strip_frontmatter(ls) ==
    IF ls = <<>> THEN ls
    ELSE IF ~FRONTMATTER_DELIM_RE(ls[1]) THEN ls
    ELSE LET closing == {i \in 2..Len(ls) : FRONTMATTER_DELIM_RE(ls[i])}
         IN  IF closing = {} THEN ls
             ELSE LET i == CHOOSE j \in closing : \A m \in closing : j <= m
                  IN  SubSeq(ls, i + 1, Len(ls))

\* dict.get(v, [])
GetOr(d, v) == IF v \in DOMAIN d THEN d[v] ELSE <<>>

\* faulty variant: the line reaches one of the named views only
add_to_views_one(vl, vs, x) ==
    IF vs = {} THEN vl
    ELSE LET v == CHOOSE w \in vs : TRUE
         IN  [w \in DOMAIN vl \cup {v} |-> IF w = v THEN Append(GetOr(vl, w), x) ELSE vl[w]]

\* parse_master.add_to_views: setdefault(v, []).append(x) for every v in vs
add_to_views(vl, vs, x) ==
    [v \in DOMAIN vl \cup vs |-> IF v \in vs THEN Append(GetOr(vl, v), x) ELSE vl[v]]

\* "\n".join(out)
RECURSIVE Join(_)
Join(ls) ==
    IF ls = <<>> THEN <<>>
    ELSE IF Len(ls) = 1 THEN LineChars(ls[1])
    ELSE LineChars(Head(ls)) \o <<"\n">> \o Join(Tail(ls))

\* str.rstrip()
RECURSIVE RStrip(_)
RStrip(t) ==
    IF t = <<>> THEN t
    ELSE IF t[Len(t)] \in Whitespace THEN RStrip(SubSeq(t, 1, Len(t) - 1))
    ELSE t

\* faulty variant: the view's lines put before the global lines
build_carved_mermaid_view_first(gl, pv) == RStrip(Join(pv \o gl)) \o <<"\n">>

\* build_carved_mermaid
build_carved_mermaid(gl, pv) == RStrip(Join(gl \o pv)) \o <<"\n">>

\* Python's string order on the view names (sorted(view_lines.keys()))
ViewOrd(v) == CASE v = "all" -> 0 [] v = "w" -> 1 [] v = "x" -> 2 [] v = "y" -> 3 [] v = "z" -> 4

RECURSIVE SortedViews(_)
SortedViews(S) ==
    IF S = {} THEN <<>>
    ELSE LET v == CHOOSE w \in S : \A u \in S : ViewOrd(w) <= ViewOrd(u)
         IN  <<v>> \o SortedViews(S \ {v})

\* determine_views: "if explicit_views" is false for None and for []
determine_views(vl, ev) ==
    IF ev # <<>> THEN ev ELSE SortedViews(DOMAIN vl)

(***************************************************************************)
(* SpecCarve: main() of carve_diagrams.py on one master document: the      *)
(* parse loop of parse_master one line per step, then one carved text per  *)
(* view.                                                                   *)
(***************************************************************************)
\* the master documents drawn
Documents == UNION {[1..n -> LineAlphabet] : n \in 0..MaxLen}

\* --views: absent (None or [], written <<>>), or a list that names a view
\* the documents tag and one they never tag
ExplicitViewChoices == {<<>>, <<"x", "w">>}

InitCarve ==
    /\ cpc = "read"
    /\ raw_lines \in Documents
    /\ explicit_views \in ExplicitViewChoices
    /\ lines = <<>> /\ idx = 0
    /\ global_lines = <<>> /\ view_lines = <<>>
    /\ pending_views = NoSet /\ in_block = FALSE /\ block_view = None
    /\ views = <<>> /\ vi = 0 /\ carved = <<>>
    /\ global_pos = <<>> /\ view_pos = <<>> /\ pending_src = 0 /\ hist = <<>>
    /\ IdleExpand /\ IdleSelect

\* parse_master: lines = strip_frontmatter(raw_lines)
StripFrontmatter ==
    /\ cpc = "read"
    /\ lines' = strip_frontmatter(raw_lines)
    /\ idx' = 1
    /\ cpc' = "parse"
    /\ UNCHANGED <<raw_lines, explicit_views, global_lines, view_lines, pending_views,
                   in_block, block_view, views, vi, carved,
                   global_pos, view_pos, pending_src, hist, xvars, svars>>

\* faulty variant: a begin marker opens a block inside a block too
opens_block_nested(ln, inb) == BEGIN_RE(ln) # None

\* the conditions of the parse loop, in the order the loop tests them
opens_block(ln, inb) == BEGIN_RE(ln) # None /\ ~inb

\* faulty variant: the end marker is not recognised
closes_block_never(ln, inb) == FALSE

closes_block(ln, inb) == END_RE(ln) /\ inb

sets_pending(ln, inb) == VIEW_LINE_RE(ln) # None /\ ~inb

\* faulty variant: the block's view does not get the lines of the block
goes_to_block_never(inb, bv) == FALSE

goes_to_block(inb, bv) == inb /\ bv # None

\* "if pending_views": neither None nor the empty set
goes_to_pending(pv) == pv # NoSet /\ pv[1] # {}

InLoop == cpc = "parse" /\ idx <= Len(lines)

\* every turn of the loop moves to the next line and notes the state it found
Advance ==
    /\ idx' = idx + 1
    /\ hist' = Append(hist, [in_block |-> in_block, pending |-> pending_views,
                             block_view |-> block_view])
    /\ UNCHANGED <<cpc, raw_lines, explicit_views, lines, views, vi, carved, xvars, svars>>

\* lines 91-96
BeginBlock ==
    /\ InLoop
    /\ opens_block(lines[idx], in_block)
    /\ in_block' = TRUE
    /\ block_view' = BEGIN_RE(lines[idx])
    /\ Advance
    /\ UNCHANGED <<global_lines, view_lines, pending_views, global_pos, view_pos, pending_src>>

\* lines 98-101
EndBlock ==
    /\ InLoop
    /\ ~opens_block(lines[idx], in_block)
    /\ closes_block(lines[idx], in_block)
    /\ in_block' = FALSE
    /\ block_view' = None
    /\ Advance
    /\ UNCHANGED <<global_lines, view_lines, pending_views, global_pos, view_pos, pending_src>>

\* lines 104-107
LineTag ==
    /\ InLoop
    /\ ~opens_block(lines[idx], in_block)
    /\ ~closes_block(lines[idx], in_block)
    /\ sets_pending(lines[idx], in_block)
    /\ pending_views' = SomeSet(SplitViews(VIEW_LINE_RE(lines[idx])))
    /\ pending_src' = idx
    /\ Advance
    /\ UNCHANGED <<global_lines, view_lines, in_block, block_view, global_pos, view_pos>>

NoMarkerTaken ==
    /\ ~opens_block(lines[idx], in_block)
    /\ ~closes_block(lines[idx], in_block)
    /\ ~sets_pending(lines[idx], in_block)

\* lines 110-112
BlockLine ==
    /\ InLoop
    /\ NoMarkerTaken
    /\ goes_to_block(in_block, block_view)
    /\ view_lines' = add_to_views(view_lines, {block_view}, lines[idx])
    /\ view_pos' = add_to_views(view_pos, {block_view}, [pos |-> idx, by |-> 0])
    /\ Advance
    /\ UNCHANGED <<global_lines, pending_views, in_block, block_view, global_pos, pending_src>>

\* faulty variant: the register is left as it is after use
pending_after_use_kept == pending_views

\* line 116: pending_views = None
pending_after_use == NoSet

\* lines 114-117
TaggedLine ==
    /\ InLoop
    /\ NoMarkerTaken
    /\ ~goes_to_block(in_block, block_view)
    /\ goes_to_pending(pending_views)
    /\ view_lines' = add_to_views(view_lines, pending_views[1], lines[idx])
    /\ view_pos' = add_to_views(view_pos, pending_views[1], [pos |-> idx, by |-> pending_src])
    /\ pending_views' = pending_after_use
    /\ pending_src' = IF pending_after_use = NoSet THEN 0 ELSE pending_src
    /\ Advance
    /\ UNCHANGED <<global_lines, in_block, block_view, global_pos>>

\* faulty variant: blank lines are not kept
append_global_skip_blank(gl, ln, x) == IF ln = "" THEN gl ELSE Append(gl, x)

\* line 121: global_lines.append(ln); ln decides nothing, x is what is appended
append_global(gl, ln, x) == Append(gl, x)

\* line 121
GlobalLine ==
    /\ InLoop
    /\ NoMarkerTaken
    /\ ~goes_to_block(in_block, block_view)
    /\ ~goes_to_pending(pending_views)
    /\ global_lines' = append_global(global_lines, lines[idx], lines[idx])
    /\ global_pos' = append_global(global_pos, lines[idx], idx)
    /\ Advance
    /\ UNCHANGED <<view_lines, pending_views, in_block, block_view, view_pos, pending_src>>

\* main, lines 210-217: views = determine_views(...), with the catch-all "all"
DetermineViews ==
    /\ cpc = "parse" /\ idx > Len(lines)
    /\ LET vs == determine_views(view_lines, explicit_views)
       IN  IF vs = <<>>
           THEN /\ views' = <<"all">>
                /\ view_lines' = [v \in DOMAIN view_lines \cup {"all"} |-> <<>>]
                /\ view_pos' = [v \in DOMAIN view_pos \cup {"all"} |-> <<>>]
           ELSE /\ views' = vs
                /\ view_lines' = view_lines
                /\ view_pos' = view_pos
    /\ vi' = 1
    /\ cpc' = "carve"
    /\ UNCHANGED <<raw_lines, explicit_views, lines, idx, global_lines, pending_views,
                   in_block, block_view, carved,
                   global_pos, pending_src, hist, xvars, svars>>

\* main, lines 219-220: carved = build_carved_mermaid(global_lines,
\* view_to_lines.get(view, [])), for the next view of the list
CarveView ==
    /\ cpc = "carve" /\ vi <= Len(views)
    /\ carved' = [v \in DOMAIN carved \cup {views[vi]} |->
                    IF v = views[vi]
                    THEN build_carved_mermaid(global_lines, GetOr(view_lines, v))
                    ELSE carved[v]]
    /\ vi' = vi + 1
    /\ cpc' = IF vi = Len(views) THEN "done" ELSE "carve"
    /\ UNCHANGED <<raw_lines, explicit_views, lines, idx, global_lines, view_lines,
                   pending_views, in_block, block_view, views,
                   global_pos, view_pos, pending_src, hist, xvars, svars>>

NextCarve ==
    \/ StripFrontmatter
    \/ BeginBlock \/ EndBlock \/ LineTag \/ BlockLine \/ TaggedLine \/ GlobalLine
    \/ DetermineViews
    \/ CarveView

SpecCarve == InitCarve /\ [][NextCarve]_vars

(***************************************************************************)
(* C1                                                                      *)
(***************************************************************************)
\* nodes joined from S by one edge of adj
Image(adj, S) == UNION {AdjGet(adj, n) : n \in S}

\* nodes reachable from S by a path of at most k edges of adj
RECURSIVE ReachWithin(_, _, _)
ReachWithin(adj, S, k) ==
    IF k <= 0 THEN S
    ELSE ReachWithin(adj, S \cup Image(adj, S), k - 1)

\* C1: expand_directional returns exactly seed, plus every node within
\* `outbound` forward edges of the seed, plus every node within `inbound`
\* reverse edges of the seed, the two walks being independent of each other.
C1_IndependentWalks ==
    xpc = "done" =>
        LET adj == build_adjacency(xedges)
        IN  xresult = xseed \cup ReachWithin(adj.out, xseed, xoutbound)
                            \cup ReachWithin(adj.in, xseed, xinbound)

(***************************************************************************)
(* Claims on expand_neighbours (SpecNeighbours)                            *)
(***************************************************************************)
\* C11: symmetric expansion is monotonic in the hop count: for hop counts
\* k1 <= k2 (zero and negative ones included) expand_neighbours(seed, k1) is
\* a subset of expand_neighbours(seed, k2), and the seed is a subset of both.
C11_MonotonicInHops ==
    (npc = "done" /\ nk1 <= nk2) =>
        /\ nres1 \subseteq nres2
        /\ nseed \subseteq nres1
        /\ nseed \subseteq nres2

\* C11 witness: a negative and a positive hop count, the larger one reaching
\* beyond the seed
C11_Witness ==
    /\ npc = "done"
    /\ nk1 < 0 /\ nk2 >= 1
    /\ nseed # {}
    /\ nres1 = nseed
    /\ nres1 # nres2 /\ nres1 \subseteq nres2

\* the undirected graph: forward and reverse adjacency joined
UnionAdj(oadj, iadj) ==
    [n \in DOMAIN oadj \cup DOMAIN iadj |-> AdjGet(oadj, n) \cup AdjGet(iadj, n)]

\* C17: for k >= 1 expand_neighbours returns exactly the nodes at distance at
\* most k from some seed node in the undirected graph formed by the union of
\* forward and reverse adjacency; for k <= 0 it returns exactly the seed.
C17_ExactlyWithinDistance ==
    npc = "done" =>
        LET adj == build_adjacency(nedges)
        IN  nres1 = IF nk1 >= 1
                    THEN ReachWithin(UnionAdj(adj.out, adj.in), nseed, nk1)
                    ELSE nseed

\* C17 witness: one hop reaches a node over a reverse edge only, and leaves
\* out a node that is two hops away
C17_Witness ==
    /\ npc = "done" /\ nk1 = 1
    /\ LET adj == build_adjacency(nedges)
       IN  /\ \E n \in nres1 \ nseed : n \notin Image(adj.out, nseed)
           /\ \E n \in ReachWithin(UnionAdj(adj.out, adj.in), nseed, 2) : n \notin nres1

(***************************************************************************)
(* Claims on safe_id (SpecSafeId)                                          *)
(***************************************************************************)
\* C12: safe_id is idempotent, safe_id(safe_id(x)) = safe_id(x) for every
\* string x, and its result is always a non-empty string made only of
\* lowercase letters, digits and underscores.
C12_IdempotentAndClean ==
    ipc = "done" =>
        /\ isid2 = isid
        /\ isid # <<>>
        /\ \A k \in DOMAIN isid : isid[k] \in LowerLetters \cup Digits \cup {"_"}

(***************************************************************************)
(* Claims on select_for_view and render_mermaid (SpecSelect)               *)
(***************************************************************************)
Selected == pc \in {"render", "done"}

AllEdgePairs == {<<edges[k].from, edges[k].to>> : k \in DOMAIN edges}

\* the include selectors of the view match no node of the node map and no edge
MatchesNothing ==
    /\ view.include.nodes \cap DOMAIN nodes = {}
    /\ \A n \in DOMAIN nodes : view.include.tags \cap nodes[n].tags = {}
    /\ \A k \in DOMAIN edges : view.include.edge_tags \cap edges[k].tags = {}

\* C3: over a non-empty node map, a view whose include selectors match no
\* node of the node map and no edge gets the full graph: every node-map id
\* and every edge, never an empty node set.
C3_FallbackWhenNothingMatches ==
    (Selected /\ DOMAIN nodes # {} /\ MatchesNothing) =>
        /\ inc_nodes = DOMAIN nodes
        /\ inc_edges = AllEdgePairs

\* the edge list without the edges that name an id absent from the node map
RECURSIVE KnownEdges(_, _)
KnownEdges(es, ns) ==
    IF es = <<>> THEN <<>>
    ELSE (IF Head(es).from \in DOMAIN ns /\ Head(es).to \in DOMAIN ns
          THEN <<Head(es)>> ELSE <<>>) \o KnownEdges(Tail(es), ns)

\* C4: the selected node set and the emitted edges are those of the same run
\* on the edge list restricted, before adjacency building, to the edges
\* whose two endpoints are in the node map.
C4_SameAsOnKnownEdges ==
    pc = "done" =>
        LET es == KnownEdges(edges, nodes)
            adj == build_adjacency(es)
            r == select_for_view(view, nodes, es, adj.out, adj.in)
        IN  /\ inc_nodes = r.nodes
            /\ mmd.edge_pairs = render_mermaid(nodes, r.nodes, r.edges).edge_pairs

\* C9: every edge line emitted for a view has its source and its target
\* among the nodes emitted for that view.
C9_EmittedEdgesClosed ==
    pc = "done" =>
        \A k \in DOMAIN mmd.edge_pairs :
            /\ mmd.edge_pairs[k][1] \in Range(mmd.node_ids)
            /\ mmd.edge_pairs[k][2] \in Range(mmd.node_ids)

\* C9 witness: tag-selected edges, one emitted and one held back because an
\* endpoint is not among the emitted nodes
C9_Witness ==
    /\ pc = "done"
    /\ \E k \in DOMAIN edges : view.include.edge_tags \cap edges[k].tags # {}
    /\ mmd.edge_pairs # <<>>
    /\ \E p \in inc_edges : p \notin Range(mmd.edge_pairs)

NoSelectors ==
    /\ view.include.nodes = {}
    /\ view.include.tags = {}
    /\ view.include.edge_tags = {}

\* C10: a view with no include selectors and no expand keys gets exactly the
\* node-map ids as its node set and exactly the (from, to) pair of every edge
\* of the edge list as its edge set.
C10_NoSelectorsFullGraph ==
    (Selected /\ NoSelectors /\ DOMAIN view.expand = {}) =>
        /\ inc_nodes = DOMAIN nodes
        /\ inc_edges = AllEdgePairs

\* C10 witness: such a view over a model with nodes and with an edge that
\* names an id outside the node map
C10_Witness ==
    /\ Selected /\ NoSelectors /\ DOMAIN view.expand = {}
    /\ DOMAIN nodes # {}
    /\ \E k \in DOMAIN edges : edges[k].to \notin DOMAIN nodes
    /\ inc_nodes = DOMAIN nodes /\ inc_edges = AllEdgePairs

\* C15: if no edge matched the edge-tag selector, the returned edge set is
\* exactly the (from, to) pairs of the edges whose source and target are both
\* in the node set after expansion; if an edge matched, the returned edge
\* set is exactly the matched edges.
C15_InducedUnlessMatched ==
    Selected =>
        IF MatchedEdges(view, edges) = {}
        THEN inc_edges = InducedEdges(edges, AfterExpansion(view, nodes, edges, out_adj, in_adj))
        ELSE inc_edges = MatchedEdges(view, edges)

\* C16: an edge set computed as induced edges holds no edge whose source or
\* target is absent from the node map.
C16_InducedEdgesKnown ==
    (Selected /\ IncludeEdges0(view, nodes, edges) = {}) =>
        \A p \in inc_edges : p[1] \in DOMAIN nodes /\ p[2] \in DOMAIN nodes

\* C20: distinct node ids emitted in one diagram are written with distinct
\* identifiers, so no two declarations share an identifier and the
\* identifiers of an edge line name no other node than the edge's own.
C20_DistinctIdentifiers ==
    pc = "done" =>
        /\ \A i, j \in DOMAIN mmd.node_ids :
              i # j => mmd.node_decls[i] # mmd.node_decls[j]
        /\ \A k \in DOMAIN mmd.edge_lines : \A i \in DOMAIN mmd.node_ids :
              /\ mmd.node_decls[i] = mmd.edge_lines[k][1] => mmd.node_ids[i] = mmd.edge_pairs[k][1]
              /\ mmd.node_decls[i] = mmd.edge_lines[k][2] => mmd.node_ids[i] = mmd.edge_pairs[k][2]

(***************************************************************************)
(* Claims on the expansion options of select_for_view (SpecCompound)       *)
(***************************************************************************)
\* the view with only the expand keys of K
OnlyKeys(v, K) ==
    [v EXCEPT !.expand = [k \in DOMAIN v.expand \cap K |-> v.expand[k]]]

\* C18: with "neighbours" and a directional key, the node set before the
\* filter is the directional expansion of the symmetric expansion of the
\* seed, and it contains what the view gets with "neighbours" alone and
\* what it gets with its directional keys alone.
C18_SymmetricThenDirectional ==
    qpc = "done" =>
        LET adj == build_adjacency(qedges)
            symOnly == AfterExpansion(OnlyKeys(qview, {"neighbours"}), CompoundNodes,
                                      qedges, adj.out, adj.in)
            dirOnly == AfterExpansion(OnlyKeys(qview, {"outbound", "inbound"}), CompoundNodes,
                                      qedges, adj.out, adj.in)
        IN  /\ qfinal = expand_directional(symOnly, adj.out, adj.in,
                                           ExpandGetOr0(qview, "outbound"),
                                           ExpandGetOr0(qview, "inbound"))
            /\ symOnly \subseteq qfinal
            /\ dirOnly \subseteq qfinal

(***************************************************************************)
(* Claims on parse_master and build_carved_mermaid (SpecCarve)             *)
(***************************************************************************)
\* the positions of `lines` the loop has gone through
Processed == 1..Len(hist)

ParseFinished == cpc \in {"parse", "carve", "done"} /\ idx > Len(lines)

\* the positions placed in the global bucket, and in the bucket of view v
GlobalPosSet == Range(global_pos)
PosOf(v) == {GetOr(view_pos, v)[n].pos : n \in DOMAIN GetOr(view_pos, v)}

\* a line that has the text of a line-tag, begin-block or end marker
MarkerShaped(ln) == VIEW_LINE_RE(ln) # None \/ BEGIN_RE(ln) # None \/ END_RE(ln)

\* the line at position k was taken as a marker: a begin-block or line-tag
\* marker met outside a block, an end marker met inside one
TakenAsMarker(k) ==
    \/ BEGIN_RE(lines[k]) # None /\ ~hist[k].in_block
    \/ END_RE(lines[k]) /\ hist[k].in_block
    \/ VIEW_LINE_RE(lines[k]) # None /\ ~hist[k].in_block

\* the buckets hold the lines of the positions recorded for them, in the
\* order of the document
BucketsInDocOrder ==
    /\ Len(global_lines) = Len(global_pos)
    /\ \A n \in DOMAIN global_pos : global_lines[n] = lines[global_pos[n]]
    /\ \A n, m \in DOMAIN global_pos : n < m => global_pos[n] < global_pos[m]
    /\ DOMAIN view_lines = DOMAIN view_pos
    /\ \A v \in DOMAIN view_pos :
        /\ Len(view_lines[v]) = Len(view_pos[v])
        /\ \A n \in DOMAIN view_pos[v] : view_lines[v][n] = lines[view_pos[v][n].pos]
        /\ \A n, m \in DOMAIN view_pos[v] : n < m => view_pos[v][n].pos < view_pos[v][m].pos

\* str.splitlines() of a text
RECURSIVE SplitLines(_)
SplitLines(t) ==
    IF t = <<>> THEN <<>>
    ELSE LET nl == {i \in 1..Len(t) : t[i] = "\n"}
         IN  IF nl = {} THEN <<t>>
             ELSE LET i == CHOOSE j \in nl : \A m \in nl : j <= m
                  IN  <<SubSeq(t, 1, i - 1)>> \o SplitLines(SubSeq(t, i + 1, Len(t)))

Chars(ls) == [k \in DOMAIN ls |-> LineChars(ls[k])]

\* the text holds exactly the lines ls (for no lines at all: nothing, or the
\* bare final newline)
ExactLines(t, ls) ==
    IF ls = <<>> THEN t \in {<<>>, <<"\n">>}
    ELSE SplitLines(t) = Chars(ls)

\* a line without its trailing blanks
RECURSIVE TrimLine(_)
TrimLine(cs) ==
    IF cs = <<>> THEN cs
    ELSE IF cs[Len(cs)] = " " THEN TrimLine(SubSeq(cs, 1, Len(cs) - 1))
    ELSE cs

\* the lines without the blank lines at the end, the last line left without
\* its trailing blanks
RECURSIVE TrimTrailing(_)
TrimTrailing(cls) ==
    IF cls = <<>> THEN cls
    ELSE IF TrimLine(cls[Len(cls)]) = <<>> THEN TrimTrailing(SubSeq(cls, 1, Len(cls) - 1))
    ELSE [k \in DOMAIN cls |-> IF k = Len(cls) THEN TrimLine(cls[k]) ELSE cls[k]]

\* the lines written out, each ended by a newline
RECURSIVE Terminated(_)
Terminated(cls) ==
    IF cls = <<>> THEN <<>>
    ELSE Head(cls) \o <<"\n">> \o Terminated(Tail(cls))

\* the text of the lines ls up to trailing white space: blank lines at the
\* end dropped, the last line right-trimmed, one final newline
TrimmedText(ls) ==
    IF TrimTrailing(Chars(ls)) = <<>> THEN <<"\n">>
    ELSE Terminated(TrimTrailing(Chars(ls)))

IsPrefix(a, b) == Len(a) <= Len(b) /\ SubSeq(b, 1, Len(a)) = a

\* ---- C2
MarkerTexts == {LineChars(ln) : ln \in {m \in LineAlphabet : MarkerShaped(m)}}

\* C2 (as stated): no line that is a line-tag, begin-block or end marker is
\* in the global bucket, in a view's bucket or in an assembled output.
C2_NoMarkerLineAnywhere ==
    /\ \A n \in DOMAIN global_lines : ~MarkerShaped(global_lines[n])
    /\ \A v \in DOMAIN view_lines : \A n \in DOMAIN view_lines[v] : ~MarkerShaped(view_lines[v][n])
    /\ \A v \in DOMAIN carved : \A n \in DOMAIN SplitLines(carved[v]) :
            SplitLines(carved[v])[n] \notin MarkerTexts

\* C2 (amended): a line taken as a marker (begin-block or line-tag marker
\* outside a block, end marker inside a block) is in no bucket and no output;
\* every other line, marker-shaped or not, is placed in a bucket, and an
\* output holds nothing but lines of the global bucket and of its view's.
C2_TakenMarkersNeverPlaced ==
    /\ BucketsInDocOrder
    /\ \A k \in Processed :
          TakenAsMarker(k) <=>
              (k \notin GlobalPosSet /\ \A v \in DOMAIN view_pos : k \notin PosOf(v))
    /\ \A v \in DOMAIN carved : \A n \in DOMAIN SplitLines(carved[v]) :
          \/ SplitLines(carved[v])[n] = <<>>
          \/ \E k \in GlobalPosSet \cup PosOf(v) :
                SplitLines(carved[v])[n] \in {LineChars(lines[k]), TrimLine(LineChars(lines[k]))}

\* C2 witness: a finished run that took a line-tag marker, a begin marker and
\* an end marker, and placed a line
C2_Witness ==
    /\ cpc = "done"
    /\ \E i, j, k \in Processed :
          /\ TakenAsMarker(i) /\ VIEW_LINE_RE(lines[i]) # None
          /\ TakenAsMarker(j) /\ BEGIN_RE(lines[j]) # None
          /\ TakenAsMarker(k) /\ END_RE(lines[k])
    /\ \E k \in Processed : ~TakenAsMarker(k)

\* ---- C5
NoMarkerLines == \A k \in DOMAIN raw_lines : ~MarkerShaped(raw_lines[k])

\* C5 (as stated): a document without marker lines, no explicit view list:
\* the one view "all", its bucket empty, its output exactly the lines of the
\* front-matter-stripped input, none added, removed or altered.
C5_RoundTripExact ==
    (cpc = "done" /\ NoMarkerLines /\ explicit_views = <<>>) =>
        /\ views = <<"all">>
        /\ view_lines["all"] = <<>>
        /\ ExactLines(carved["all"], strip_frontmatter(raw_lines))

\* C5 (amended): ... its output is the lines of the front-matter-stripped
\* input, in order, up to trailing white space: the blank lines at the end
\* are dropped, the last line loses its trailing blanks, and the text ends
\* with one newline.
C5_RoundTripUpToTrailingBlank ==
    (cpc = "done" /\ NoMarkerLines /\ explicit_views = <<>>) =>
        /\ views = <<"all">>
        /\ DOMAIN carved = {"all"}
        /\ view_lines["all"] = <<>>
        /\ global_lines = strip_frontmatter(raw_lines)
        /\ carved["all"] = TrimmedText(strip_frontmatter(raw_lines))

\* C5 witness: front matter was stripped, content remains, and the input
\* ends with a blank line
C5_Witness ==
    /\ cpc = "done" /\ NoMarkerLines /\ explicit_views = <<>>
    /\ Len(lines) < Len(raw_lines)
    /\ \E k \in DOMAIN lines : lines[k] = "n1"
    /\ lines[Len(lines)] = ""

\* ---- C6
\* the lines that the line-tag marker at position i has tagged
TaggedBy(i) ==
    {p \in Processed : \E v \in DOMAIN view_pos : \E n \in DOMAIN view_pos[v] :
        view_pos[v][n] = [pos |-> p, by |-> i]}

\* the views whose bucket holds the line at position p
ViewsHolding(p) == {v \in DOMAIN view_pos : p \in PosOf(v)}

NamedViews(i) == SplitViews(VIEW_LINE_RE(lines[i]))

\* the content lines after position i
ContentAfter(i) == {j \in DOMAIN lines : j > i /\ ~MarkerShaped(lines[j])}

\* C6 (as stated): every line-tag marker (that names a view and has a content
\* line after it) tags exactly one line, the first content line after it.
C6_TagsFirstContentLine ==
    ParseFinished =>
        \A i \in DOMAIN lines :
            (VIEW_LINE_RE(lines[i]) # None /\ NamedViews(i) # {} /\ ContentAfter(i) # {}) =>
                TaggedBy(i) = {CHOOSE j \in ContentAfter(i) : \A m \in ContentAfter(i) : j <= m}

\* the line-tag marker at i was met outside a block
RecognisedTag(i) == VIEW_LINE_RE(lines[i]) # None /\ ~hist[i].in_block

\* the processed positions after i that are outside every block and hold no
\* begin marker: the next line-tag marker, or a line placed by the register
\* or in the global bucket
OutsideAfter(i) ==
    {p \in Processed : p > i /\ ~hist[p].in_block /\ BEGIN_RE(lines[p]) = None}

\* C6 (amended): a line-tag marker met outside a block tags at most one
\* line: the next line after it that is outside every block and is no begin
\* marker, unless it names no view or that line is another line-tag marker;
\* lines of a block in between go to the block's view and leave the register
\* set.  A line-tag marker inside a block tags nothing.  Once the tagged
\* line has been placed the register no longer holds that marker's views.
C6_TagsNextLineOutsideBlocks ==
    /\ \A i \in Processed :
          LET first == CHOOSE p \in OutsideAfter(i) : \A m \in OutsideAfter(i) : p <= m
          IN  IF /\ RecognisedTag(i) /\ NamedViews(i) # {}
                 /\ OutsideAfter(i) # {}
                 /\ VIEW_LINE_RE(lines[first]) = None
              THEN /\ TaggedBy(i) = {first}
                   /\ ViewsHolding(first) = NamedViews(i)
                   /\ first \notin GlobalPosSet
              ELSE TaggedBy(i) = {}
    /\ IF pending_views = NoSet THEN pending_src = 0
       ELSE /\ pending_src \in Processed
            /\ RecognisedTag(pending_src)
            /\ pending_views = SomeSet(NamedViews(pending_src))
            /\ TaggedBy(pending_src) = {}

\* C6 witness: a marker whose tagged line is not the line right after it (a
\* block lies in between), and the register is empty again
C6_Witness ==
    /\ cpc = "done"
    /\ \E i \in Processed : \E p \in TaggedBy(i) : p > i + 1
    /\ pending_views = NoSet

\* ---- C7
InXAndYOnly(k) ==
    /\ k \in PosOf("x") /\ k \in PosOf("y")
    /\ k \notin GlobalPosSet
    /\ \A v \in DOMAIN view_pos \ {"x", "y"} : k \notin PosOf(v)
    /\ \E n \in DOMAIN GetOr(view_lines, "x") : view_lines["x"][n] = lines[k]
    /\ \E n \in DOMAIN GetOr(view_lines, "y") : view_lines["y"][n] = lines[k]

\* C7 (as stated): a content line preceded by a line-tag marker naming x and
\* y is in the bucket of x and of y, not in the global bucket nor in any other
\* view's bucket.
C7_TaggedLineInXAndY ==
    \A k \in Processed :
        (k > 1 /\ VIEW_LINE_RE(lines[k - 1]) = "x,y" /\ ~MarkerShaped(lines[k])) =>
            InXAndYOnly(k)

\* C7 (amended): ... preceded by a line-tag marker naming x and y that stands
\* outside every block ...
C7_TaggedLineOutsideBlockInXAndY ==
    /\ BucketsInDocOrder
    /\ \A k \in Processed :
        (/\ k > 1 /\ VIEW_LINE_RE(lines[k - 1]) = "x,y" /\ ~hist[k - 1].in_block
         /\ ~MarkerShaped(lines[k])) =>
            InXAndYOnly(k)

\* C7 witness: such a line, in a document that also fills the bucket of a
\* third view
C7_Witness ==
    /\ cpc = "done"
    /\ \E k \in Processed :
          /\ k > 1 /\ VIEW_LINE_RE(lines[k - 1]) = "x,y" /\ ~hist[k - 1].in_block
          /\ ~MarkerShaped(lines[k])
    /\ PosOf("z") # {}

\* ---- C8
LinesFor(v) == global_lines \o GetOr(view_lines, v)

\* C8 (as stated): the output of every requested view is the global lines
\* followed by the view's lines, each bucket in document order, with the same
\* global lines in front for every view.
C8_GlobalThenViewExact ==
    cpc = "done" =>
        /\ BucketsInDocOrder
        /\ \A v \in Range(views) :
              LinesFor(v) # <<>> =>
                  /\ ExactLines(carved[v], LinesFor(v))
                  /\ IsPrefix(Chars(global_lines), SplitLines(carved[v]))

\* C8 (amended): the output of every requested view is, up to trailing white
\* space (blank lines at the end dropped, the last line right-trimmed, one
\* final newline), the global lines followed by the view's lines, each bucket
\* in document order; the global lines joined into every view's output are
\* the same sequence, and their text up to trailing white space begins every
\* output.
C8_GlobalThenViewUpToTrailingBlank ==
    cpc = "done" =>
        /\ BucketsInDocOrder
        /\ DOMAIN carved = Range(views)
        /\ \A v \in Range(views) :
              /\ carved[v] = TrimmedText(LinesFor(v))
              /\ IsPrefix(RStrip(Join(global_lines)), carved[v])

\* C8 witness: an explicit view list with a tagged view and a view without
\* lines, global lines, and an output that lost a trailing blank line
C8_Witness ==
    /\ cpc = "done"
    /\ explicit_views # <<>>
    /\ global_lines # <<>>
    /\ GetOr(view_lines, "x") # <<>>
    /\ "w" \in DOMAIN carved /\ "w" \notin DOMAIN view_lines
    /\ \E v \in Range(views) : ~ExactLines(carved[v], LinesFor(v))

\* ---- C13
\* the position of the begin marker that opened the block the loop is in
OpenedAt ==
    CHOOSE b \in Processed :
        /\ BEGIN_RE(lines[b]) # None /\ ~hist[b].in_block
        /\ \A k \in Processed :
              (BEGIN_RE(lines[k]) # None /\ ~hist[k].in_block) => k <= b

\* C13: when the input ends inside a block opened for view v, parsing ends
\* as for any other input, and every line after the block's begin marker
\* that is not an end marker is in v's bucket and not in the global bucket.
C13_UnterminatedBlockKept ==
    (ParseFinished /\ in_block) =>
        /\ block_view = BEGIN_RE(lines[OpenedAt])
        /\ \A k \in (OpenedAt + 1)..Len(lines) :
              ~END_RE(lines[k]) =>
                  /\ k \in PosOf(block_view)
                  /\ k \notin GlobalPosSet

\* C13 witness: a run that went on to write its outputs after the input
\* ended two lines into a block, with a global line before the block
C13_Witness ==
    /\ cpc = "done" /\ in_block
    /\ GlobalPosSet # {}
    /\ OpenedAt + 2 <= Len(lines)
    /\ \A k \in (OpenedAt + 1)..Len(lines) : k \in PosOf(block_view)

\* ---- C14
\* C14: strip_frontmatter removes a leading front-matter block only when the
\* first line is a delimiter and a later delimiter line exists, and then
\* returns exactly the lines after the first closing delimiter; otherwise
\* it returns the line sequence unchanged.
C14_FrontmatterStripped ==
    cpc # "read" =>
        LET n == Len(raw_lines)
            opened == n >= 1 /\ FRONTMATTER_DELIM_RE(raw_lines[1])
            closed == opened /\ \E j \in 2..n : FRONTMATTER_DELIM_RE(raw_lines[j])
        IN  IF closed
            THEN \E j \in 2..n :
                    /\ FRONTMATTER_DELIM_RE(raw_lines[j])
                    /\ \A m \in 2..(j - 1) : ~FRONTMATTER_DELIM_RE(raw_lines[m])
                    /\ lines = [k \in 1..(n - j) |-> raw_lines[j + k]]
            ELSE lines = raw_lines

\* C14 witness: a front-matter block followed by a further delimiter line,
\* which stays
C14_Witness ==
    /\ cpc # "read"
    /\ Len(raw_lines) >= 1 /\ FRONTMATTER_DELIM_RE(raw_lines[1])
    /\ lines # raw_lines
    /\ \E k \in DOMAIN lines : FRONTMATTER_DELIM_RE(lines[k])

\* ---- C19
\* the parser state the loop left after the line at position k
StateAfter(k) ==
    IF k < Len(hist) THEN hist[k + 1]
    ELSE [in_block |-> in_block, pending |-> pending_views, block_view |-> block_view]

\* C19: inside a block for view v, a begin-block marker line and a line-tag
\* marker line are appended verbatim to v's bucket (and to no other bucket);
\* the loop stays in the block with the same block view, and the
\* pending-views register keeps its value.
C19_MarkersInBlockAreContent ==
    \A k \in Processed :
        (hist[k].in_block /\ (BEGIN_RE(lines[k]) # None \/ VIEW_LINE_RE(lines[k]) # None)) =>
            LET v == hist[k].block_view
            IN  /\ v \in DOMAIN view_pos
                /\ \E n \in DOMAIN view_pos[v] :
                      view_pos[v][n].pos = k /\ view_lines[v][n] = lines[k]
                /\ k \notin GlobalPosSet
                /\ \A w \in DOMAIN view_pos \ {v} : k \notin PosOf(w)
                /\ StateAfter(k).in_block
                /\ StateAfter(k).block_view = v
                /\ StateAfter(k).pending = hist[k].pending

\* C19 witness: a block entered with a pending line tag, holding a begin
\* marker line and a line-tag marker line
C19_Witness ==
    \E j, k \in Processed :
        /\ hist[j].in_block /\ BEGIN_RE(lines[j]) # None
        /\ hist[k].in_block /\ VIEW_LINE_RE(lines[k]) # None
        /\ hist[k].pending # NoSet
        /\ {j, k} \subseteq PosOf(hist[k].block_view)

====
